---- MODULE Spec2Model ----
(***************************************************************************)
(* A model of whisperlivekit/gui_app.py: main() (the foreground thread),   *)
(* _run_server() (the background service thread) and _wait_and_load() (the *)
(* polling task that pywebview runs beside the view's event loop).         *)
(*                                                                         *)
(* Every action is one step of one of the three threads of control (or of  *)
(* the environment: the user closing the view, a Ctrl-C); the threads      *)
(* interleave freely.                                                      *)
(***************************************************************************)
EXTENDS Integers, Sequences, FiniteSets, TLC

VARIABLES
  args,                    \* parse_args(): host, port, ssl_certfile, ssl_keyfile
  uvicorn_kwargs,          \* the dict handed to uvicorn.Config
  pc,                      \* main(): where the foreground thread is
  raised,                  \* the exception main() ended with ("none": returned)
  pending,                 \* the exception in flight while the finally block runs
  server_thread,           \* "none" | "alive" | "dead"
  srv,                     \* _run_server(): where the service thread is
  listening,               \* the service's socket is bound and accepting
  server_ready,            \* threading.Event server_ready
  should_exit,             \* server.should_exit
  install_signal_handlers, \* server.install_signal_handlers: "original" | "noop"
  startup,                 \* server.startup: "original" | "wrapper"
  url_scheme, display_host, base_url, probe_host,
  i,                       \* the loop variable of main()'s wait loop (polls done)
  handoff,                 \* how the wait loop ended: "none" | "event" | "probe" | "exhausted"
  view,                    \* "none" | "created" | "open" | "closed"
  view_url,                \* what the view shows: "none" | "LOADER_HTML" | a URL
  view_error,              \* the exception the embedded view failed with, if any
  wl,                      \* _wait_and_load(): where the polling task is
  j,                       \* the loop variable of _wait_and_load()
  load_calls,              \* window.load_url calls made
  browser,                 \* the URL webbrowser.open was called with, or "none"
  stop_requests,           \* assignments server.should_exit = True made by main()
  join_calls,              \* server_thread.join calls made
  join_result,             \* how the join ended: "none" | "ended" | "timeout" | "interrupted"
  ready_sets,              \* server_ready.set() calls made
  probe                    \* one call of _is_port_open, followed statement by statement

vars == << args, uvicorn_kwargs, pc, raised, pending, server_thread, srv,
           listening, server_ready, should_exit, install_signal_handlers,
           startup, url_scheme, display_host, base_url, probe_host, i, handoff, view,
           view_url, view_error, wl, j, load_calls, browser, stop_requests,
           join_calls, join_result, ready_sets, probe >>

mainVars == << pc, raised, pending, i, handoff >>
urlVars  == << url_scheme, display_host, base_url, probe_host >>
srvVars  == << srv, listening, server_ready, install_signal_handlers, startup >>
viewVars == << view, view_url, view_error, wl, j, load_calls >>
endVars  == << should_exit, stop_requests, join_calls >>

(***************************************************************************)
(* Inputs and program constants                                            *)
(***************************************************************************)
None == "None"

\* The bind addresses main() treats as wildcards (lines 83 and 85).
WildcardHosts == { "0.0.0.0", "::", "0:0:0:0:0:0:0:0" }

\* The configurations of the configuration specification (ConfigSpec):
\* --host is one of the three wildcards, an IPv4 literal, a name or an IPv6
\* literal; --ssl-certfile and --ssl-keyfile are absent, empty or a path.
AllArgs ==
  [ host : WildcardHosts \cup { "127.0.0.1", "example.org", "::1" },
    port : { 80, 8000, 8443 },
    ssl_certfile : { None, "", "cert.pem" },
    ssl_keyfile : { None, "", "key.pem" } ]

\* The configurations of the whole program (Spec): one host of each kind the
\* prober tells apart (answered when the service listens, answered only on a
\* dual-stack platform, never resolved), one of them with TLS, and the two
\* configurations with only one of the certificate and the key.
RunArgs ==
  { [ host |-> "0.0.0.0", port |-> 8000,
      ssl_certfile |-> None, ssl_keyfile |-> None ],
    [ host |-> "::", port |-> 8000,
      ssl_certfile |-> "cert.pem", ssl_keyfile |-> "key.pem" ],
    [ host |-> "::1", port |-> 8000,
      ssl_certfile |-> None, ssl_keyfile |-> None ],
    [ host |-> "0.0.0.0", port |-> 8000,
      ssl_certfile |-> "cert.pem", ssl_keyfile |-> None ],
    [ host |-> "0.0.0.0", port |-> 8000,
      ssl_certfile |-> None, ssl_keyfile |-> "key.pem" ] }

\* range(200) of main()'s wait loop and range(1200) of _wait_and_load().
WaitPolls == 200
LoadPolls == 1200

\* Python truthiness of an optional string.
Truthy(x) == x \notin { None, "" }

(***************************************************************************)
(* _is_port_open: one connect() on an AF_INET socket; True only when the   *)
(* connection was established, False for every exception.                  *)
(***************************************************************************)
\* What connect((host, port)) can end with. An IPv6 literal cannot be
\* resolved for an AF_INET socket. A service bound to an IPv6 wildcard
\* answers on 127.0.0.1 only on a dual-stack platform.
ConnectOutcomes(bind_host, host, is_listening) ==
  IF host = "::1" THEN { "gaierror" }
  ELSE IF ~is_listening THEN { "refused", "timeout" }
  ELSE IF bind_host \in { "::", "0:0:0:0:0:0:0:0" } THEN { "connected", "refused" }
  ELSE { "connected" }

_is_port_open(outcome) == outcome = "connected"

(***************************************************************************)
(* main(), lines 65-85: validation, the service thread, the DisplayTarget  *)
(***************************************************************************)
InitWith(configurations) ==
  /\ args \in configurations
  /\ uvicorn_kwargs = [ host |-> args.host, port |-> args.port ]
  /\ pc = "validate"
  /\ raised = "none"
  /\ pending = "none"
  /\ server_thread = "none"
  /\ srv = "unstarted"
  /\ listening = FALSE
  /\ server_ready = FALSE
  /\ should_exit = FALSE
  /\ install_signal_handlers = "original"
  /\ startup = "original"
  /\ url_scheme = "unset" /\ display_host = "unset"
  /\ base_url = "unset" /\ probe_host = "unset"
  /\ i = 0
  /\ handoff = "none"
  /\ view = "none" /\ view_url = "none" /\ view_error = "none"
  /\ wl = "unstarted" /\ j = 0 /\ load_calls = 0
  /\ browser = "none"
  /\ stop_requests = 0
  /\ join_calls = 0
  /\ join_result = "none"
  /\ ready_sets = 0

\* No call of _is_port_open is being followed.
NoProbe ==
  [ at |-> "idle", host |-> "none", port |-> 0, listening |-> FALSE,
    sock |-> "none", outcome |-> "none", result |-> "none",
    raised |-> "none" ]

Init == InitWith(RunArgs) /\ probe = NoProbe

\* Lines 65-67: the condition under which main() raises ValueError.
SslMismatchMutant(cert, key) == FALSE
SslMismatch(cert, key) ==
  (Truthy(cert) \/ Truthy(key)) /\ ~(Truthy(cert) /\ Truthy(key))

\* Line 67: the exception and its message.
ValueError ==
  "ValueError: Both --ssl-certfile and --ssl-keyfile must be specified together."

\* Lines 65-71.
Validate ==
  /\ pc = "validate"
  /\ IF SslMismatch(args.ssl_certfile, args.ssl_keyfile)
       THEN /\ pc' = "exit"
            /\ raised' = ValueError
            /\ UNCHANGED uvicorn_kwargs
       ELSE /\ pc' = "start"
            /\ raised' = raised
            /\ uvicorn_kwargs' =
                 IF Truthy(args.ssl_certfile) \/ Truthy(args.ssl_keyfile)
                   THEN [ host |-> args.host, port |-> args.port,
                          ssl_certfile |-> args.ssl_certfile,
                          ssl_keyfile |-> args.ssl_keyfile ]
                   ELSE uvicorn_kwargs
  /\ UNCHANGED << args, probe, ready_sets, join_result, pending, i, handoff, server_thread, srvVars, urlVars, viewVars,
                  browser, endVars >>

\* Lines 73-79: the server, the event, and the started daemon thread.
StartServer ==
  /\ pc = "start"
  /\ pc' = "resolve"
  /\ server_thread' = "alive"
  /\ srv' = "patch"
  /\ UNCHANGED << args, probe, ready_sets, join_result, uvicorn_kwargs, raised, pending, i, handoff, listening,
                  server_ready, install_signal_handlers, startup, urlVars,
                  viewVars, browser, endVars >>

\* Line 82.
UrlSchemeMutant(kwargs) == "http"
UrlScheme(kwargs) ==
  IF "ssl_certfile" \in DOMAIN kwargs THEN "https" ELSE "http"

\* Line 83.
DisplayHostMutant(host) ==
  IF host \in { "0.0.0.0" } THEN "localhost" ELSE host
DisplayHost(host) ==
  IF host \in WildcardHosts THEN "localhost" ELSE host

\* Line 84: the f-string.
BaseUrl(scheme, host, port) == scheme \o "://" \o host \o ":" \o ToString(port)

\* Line 85.
ProbeHost(host) ==
  IF host \in WildcardHosts THEN "127.0.0.1" ELSE host

\* Lines 82-85.
ResolveTarget ==
  /\ pc = "resolve"
  /\ pc' = "wait_check"
  /\ url_scheme' = UrlScheme(uvicorn_kwargs)
  /\ display_host' = DisplayHost(args.host)
  /\ base_url' = BaseUrl(UrlScheme(uvicorn_kwargs), DisplayHost(args.host),
                         args.port)
  /\ probe_host' = ProbeHost(args.host)
  /\ UNCHANGED << args, probe, ready_sets, join_result, uvicorn_kwargs, raised, pending, i, handoff, server_thread,
                  srvVars, viewVars, browser, endVars >>

(***************************************************************************)
(* main(), lines 86-89: the bounded readiness wait                         *)
(*                                                                         *)
(* handoff keeps which of the loop's three exits was taken. The loop       *)
(* variable is dead after the loop: the first step after it resets i.      *)
(***************************************************************************)
\* The variables no step of the wait loop changes.
waitFrame == << args, probe, ready_sets, join_result, uvicorn_kwargs, raised, pending, server_thread, srvVars,
                urlVars, viewVars, browser, endVars >>

\* Line 86, range(200) used up: the loop ends without a break.
WaitExhausted ==
  /\ pc = "wait_check"
  /\ i = WaitPolls
  /\ pc' = "present"
  /\ handoff' = "exhausted"
  /\ UNCHANGED i
  /\ UNCHANGED waitFrame

\* Line 87, left operand: server_ready.is_set().
WaitCheckEventMutant ==
  /\ pc = "wait_check"
  /\ i < WaitPolls
  /\ pc' = "present"
  /\ handoff' = "event"
  /\ UNCHANGED i
  /\ UNCHANGED waitFrame
WaitCheckEvent ==
  /\ pc = "wait_check"
  /\ i < WaitPolls
  /\ IF server_ready
       THEN pc' = "present" /\ handoff' = "event"
       ELSE pc' = "wait_probe" /\ handoff' = handoff
  /\ UNCHANGED i
  /\ UNCHANGED waitFrame

\* Line 87, right operand: _is_port_open(probe_host, args.port).
WaitProbe ==
  /\ pc = "wait_probe"
  /\ \E outcome \in ConnectOutcomes(args.host, probe_host, listening) :
       IF _is_port_open(outcome)
         THEN pc' = "present" /\ handoff' = "probe"
         ELSE pc' = "wait_sleep" /\ handoff' = handoff
  /\ UNCHANGED i
  /\ UNCHANGED waitFrame

\* Line 89: time.sleep(0.05), and the next iteration.
WaitSleepMutant ==
  /\ pc = "wait_sleep"
  /\ pc' = "wait_check"
  /\ UNCHANGED << i, handoff >>
  /\ UNCHANGED waitFrame
WaitSleep ==
  /\ pc = "wait_sleep"
  /\ pc' = "wait_check"
  /\ i' = i + 1
  /\ UNCHANGED handoff
  /\ UNCHANGED waitFrame

\* A KeyboardInterrupt delivered while the foreground blocks in the probe or
\* the sleep of lines 86-89: no try statement encloses them, so it leaves
\* main() at once.
WaitInterrupt ==
  /\ pc \in { "wait_probe", "wait_sleep" }
  /\ pc' = "exit"
  /\ raised' = "KeyboardInterrupt"
  /\ UNCHANGED << args, probe, ready_sets, join_result, uvicorn_kwargs, pending, i, handoff, server_thread,
                  srvVars, urlVars, viewVars, browser, endVars >>

(***************************************************************************)
(* main(), lines 92-128: the embedded view, or the browser                 *)
(***************************************************************************)
\* Line 120, except Exception: where an error of the try block goes.
ViewFailsMutant(err) ==
  /\ view_error' = err
  /\ IF err = "ImportError"
       THEN pc' = "fallback" /\ pending' = pending
       ELSE pc' = "finally" /\ pending' = err
ViewFails(err) ==
  /\ view_error' = err
  /\ pc' = "fallback"
  /\ pending' = pending

\* Line 93: import webview.
ImportWebview ==
  /\ pc = "present"
  /\ \E ok \in BOOLEAN :
       IF ok THEN pc' = "create_window" /\ UNCHANGED << view_error, pending >>
             ELSE ViewFails("ImportError")
  /\ i' = 0
  /\ UNCHANGED << args, probe, ready_sets, join_result, uvicorn_kwargs, raised, handoff, server_thread, srvVars,
                  urlVars, view, view_url, wl, j, load_calls, browser,
                  endVars >>

\* Line 108: webview.create_window(..., html=LOADER_HTML, ...).
CreateWindow ==
  /\ pc = "create_window"
  /\ \E ok \in BOOLEAN :
       IF ok THEN /\ pc' = "webview_start"
                  /\ view' = "created"
                  /\ view_url' = "LOADER_HTML"
                  /\ UNCHANGED << view_error, pending >>
             ELSE /\ ViewFails("CreateError")
                  /\ UNCHANGED << view, view_url >>
  /\ UNCHANGED << args, probe, ready_sets, join_result, uvicorn_kwargs, raised, i, handoff, server_thread, srvVars,
                  urlVars, wl, j, load_calls, browser, endVars >>

\* Line 119: webview.start(_wait_and_load) shows the window, starts the
\* polling task and runs the event loop; or it raises.
WebviewStart ==
  /\ pc = "webview_start"
  /\ \E ok \in BOOLEAN :
       IF ok THEN /\ pc' = "view_running"
                  /\ view' = "open"
                  /\ wl' = "check"
                  /\ UNCHANGED << view_error, pending >>
             ELSE /\ ViewFails("StartError")
                  /\ view' = "closed"
                  /\ wl' = wl
  /\ UNCHANGED << args, probe, ready_sets, join_result, uvicorn_kwargs, raised, i, handoff, server_thread, srvVars,
                  urlVars, view_url, j, load_calls, browser, endVars >>

\* Line 119: the event loop raises while the view is shown.
ViewRaises ==
  /\ pc = "view_running"
  /\ ViewFails("RunError")
  /\ view' = "closed"
  /\ UNCHANGED << args, probe, ready_sets, join_result, uvicorn_kwargs, raised, i, handoff, server_thread, srvVars,
                  urlVars, view_url, wl, j, load_calls, browser, endVars >>

\* Line 119: the user closes the window and webview.start returns.
ViewClosedMutant ==
  /\ pc = "view_running"
  /\ wl = "done"
  /\ pc' = "finally"
  /\ view' = "closed"
  /\ UNCHANGED << args, probe, ready_sets, join_result, uvicorn_kwargs, raised, pending, i, handoff, server_thread,
                  srvVars, urlVars, view_url, view_error, wl, j, load_calls,
                  browser, endVars >>
ViewClosed ==
  /\ pc = "view_running"
  /\ pc' = "finally"
  /\ view' = "closed"
  /\ UNCHANGED << args, probe, ready_sets, join_result, uvicorn_kwargs, raised, pending, i, handoff, server_thread,
                  srvVars, urlVars, view_url, view_error, wl, j, load_calls,
                  browser, endVars >>

\* Line 119: a KeyboardInterrupt in the event loop is no Exception: line
\* 120 does not catch it and the finally block runs with it in flight.
ViewInterrupt ==
  /\ pc = "view_running"
  /\ pc' = "finally"
  /\ pending' = "KeyboardInterrupt"
  /\ view' = "closed"
  /\ UNCHANGED << args, probe, ready_sets, join_result, uvicorn_kwargs, raised, i, handoff, server_thread, srvVars,
                  urlVars, view_url, view_error, wl, j, load_calls, browser,
                  endVars >>

\* Line 122: webbrowser.open(base_url).
BrowserOpenMutant ==
  /\ pc = "fallback"
  /\ pc' = "keepalive"
  /\ browser' = base_url
  /\ should_exit' = TRUE
  /\ stop_requests' = stop_requests + 1
  /\ UNCHANGED << args, probe, ready_sets, join_result, uvicorn_kwargs, raised, pending, i, handoff, server_thread,
                  srvVars, urlVars, viewVars, join_calls >>
BrowserOpen ==
  /\ pc = "fallback"
  /\ pc' = "keepalive"
  /\ browser' = base_url
  /\ UNCHANGED << args, probe, ready_sets, join_result, uvicorn_kwargs, raised, pending, i, handoff, server_thread,
                  srvVars, urlVars, viewVars, endVars >>

\* Line 125: while server_thread.is_alive().
KeepAliveCheckMutant ==
  /\ pc = "keepalive"
  /\ pc' = IF server_thread = "alive" THEN "finally" ELSE "keepalive_sleep"
  /\ UNCHANGED << args, probe, ready_sets, join_result, uvicorn_kwargs, raised, pending, i, handoff, server_thread,
                  srvVars, urlVars, viewVars, browser, endVars >>
KeepAliveCheck ==
  /\ pc = "keepalive"
  /\ pc' = IF server_thread = "alive" THEN "keepalive_sleep" ELSE "finally"
  /\ UNCHANGED << args, probe, ready_sets, join_result, uvicorn_kwargs, raised, pending, i, handoff, server_thread,
                  srvVars, urlVars, viewVars, browser, endVars >>

\* Line 126: time.sleep(0.2).
KeepAliveSleep ==
  /\ pc = "keepalive_sleep"
  /\ pc' = "keepalive"
  /\ UNCHANGED << args, probe, ready_sets, join_result, uvicorn_kwargs, raised, pending, i, handoff, server_thread,
                  srvVars, urlVars, viewVars, browser, endVars >>

\* Lines 127-128: a KeyboardInterrupt in the keep-alive loop is caught.
KeepAliveInterrupt ==
  /\ pc = "keepalive_sleep"
  /\ pc' = "finally"
  /\ UNCHANGED << args, probe, ready_sets, join_result, uvicorn_kwargs, raised, pending, i, handoff, server_thread,
                  srvVars, urlVars, viewVars, browser, endVars >>

(***************************************************************************)
(* main(), lines 129-136: the finally block                                *)
(***************************************************************************)
\* Lines 131-134: server.should_exit = True.
RequestStopMutant ==
  /\ pc = "finally"
  /\ pc' = "finally_join"
  /\ UNCHANGED << args, probe, ready_sets, join_result, uvicorn_kwargs, raised, pending, i, handoff, server_thread,
                  srvVars, urlVars, viewVars, browser, endVars >>
RequestStopTwice ==
  /\ pc = "finally"
  /\ pc' = IF stop_requests = 0 THEN "finally" ELSE "finally_join"
  /\ should_exit' = TRUE
  /\ stop_requests' = stop_requests + 1
  /\ UNCHANGED << args, probe, ready_sets, join_result, uvicorn_kwargs, raised, pending, i, handoff,
                  server_thread, srvVars, urlVars, viewVars, browser,
                  join_calls >>
RequestStop ==
  /\ pc = "finally"
  /\ pc' = "finally_join"
  /\ should_exit' = TRUE
  /\ stop_requests' = stop_requests + 1
  /\ UNCHANGED << args, probe, ready_sets, join_result, uvicorn_kwargs, raised, pending, i, handoff, server_thread,
                  srvVars, urlVars, viewVars, browser, join_calls >>

\* Lines 135-136: if server_thread.is_alive(): server_thread.join(timeout=5);
\* with the thread dead main() ends, re-raising what was in flight.
JoinThread ==
  /\ pc = "finally_join"
  /\ IF server_thread = "alive"
       THEN /\ pc' = "joining"
            /\ join_calls' = join_calls + 1
            /\ raised' = raised
       ELSE /\ pc' = "exit"
            /\ join_calls' = join_calls
            /\ raised' = pending
  /\ UNCHANGED << args, probe, ready_sets, join_result, uvicorn_kwargs, pending, i, handoff, server_thread, srvVars,
                  urlVars, viewVars, browser, should_exit, stop_requests >>

\* Line 136: join returns, the thread having ended or the 5 s being over;
\* it returns None either way and raises nothing.
JoinReturnsMutant ==
  /\ pc = "joining"
  /\ pc' = "exit"
  /\ join_result' = IF server_thread = "dead" THEN "ended" ELSE "timeout"
  /\ raised' = pending
  /\ should_exit' = FALSE
  /\ UNCHANGED << args, probe, ready_sets, uvicorn_kwargs, pending, i, handoff, server_thread, srvVars,
                  urlVars, viewVars, browser, stop_requests, join_calls >>
JoinReturnsNoTimeout ==
  /\ pc = "joining"
  /\ server_thread = "dead"
  /\ pc' = "exit"
  /\ join_result' = "ended"
  /\ raised' = pending
  /\ UNCHANGED << args, probe, ready_sets, uvicorn_kwargs, pending, i, handoff, server_thread, srvVars,
                  urlVars, viewVars, browser, endVars >>
JoinReturns ==
  /\ pc = "joining"
  /\ pc' = "exit"
  /\ join_result' = IF server_thread = "dead" THEN "ended" ELSE "timeout"
  /\ raised' = pending
  /\ UNCHANGED << args, probe, ready_sets, uvicorn_kwargs, pending, i, handoff, server_thread, srvVars,
                  urlVars, viewVars, browser, endVars >>

\* Line 136: a KeyboardInterrupt while join blocks leaves main().
JoinInterrupt ==
  /\ pc = "joining"
  /\ pc' = "exit"
  /\ join_result' = "interrupted"
  /\ raised' = "KeyboardInterrupt"
  /\ UNCHANGED << args, probe, ready_sets, uvicorn_kwargs, pending, i, handoff, server_thread, srvVars,
                  urlVars, viewVars, browser, endVars >>

(***************************************************************************)
(* _run_server(), lines 20-36: the service thread                          *)
(***************************************************************************)
\* Lines 25-32: the two monkey patches.
RunServerPatchMutant ==
  /\ srv = "patch"
  /\ srv' = "run"
  /\ startup' = "wrapper"
  /\ UNCHANGED << args, probe, ready_sets, join_result, uvicorn_kwargs, mainVars, server_thread, listening,
                  install_signal_handlers, server_ready, urlVars, viewVars,
                  browser, endVars >>
RunServerPatch ==
  /\ srv = "patch"
  /\ srv' = "run"
  /\ install_signal_handlers' = "noop"
  /\ startup' = "wrapper"
  /\ UNCHANGED << args, probe, ready_sets, join_result, uvicorn_kwargs, mainVars, server_thread, listening,
                  server_ready, urlVars, viewVars, browser, endVars >>

\* Lines 30 and 34: server.run() awaits original_startup(), which binds the
\* socket and returns, or raises.
OriginalStartupMutant ==
  /\ srv = "run"
  /\ \E ok \in BOOLEAN :
       srv' = "notify" /\ listening' = ok
  /\ UNCHANGED << args, probe, ready_sets, join_result, uvicorn_kwargs, mainVars, server_thread, server_ready,
                  install_signal_handlers, startup, urlVars, viewVars, browser,
                  endVars >>
OriginalStartup ==
  /\ srv = "run"
  /\ \E ok \in BOOLEAN :
       IF ok THEN srv' = "notify" /\ listening' = TRUE
             ELSE srv' = "finally" /\ listening' = FALSE
  /\ UNCHANGED << args, probe, ready_sets, join_result, uvicorn_kwargs, mainVars, server_thread, server_ready,
                  install_signal_handlers, startup, urlVars, viewVars, browser,
                  endVars >>

\* Lines 22-23 and 31: _startup_notify() sets the event.
_startup_notify ==
  /\ srv = "notify"
  /\ srv' = "serving"
  /\ server_ready' = TRUE
  /\ ready_sets' = ready_sets + 1
  /\ UNCHANGED << args, probe, join_result, uvicorn_kwargs, mainVars, server_thread, listening,
                  install_signal_handlers, startup, urlVars, viewVars, browser,
                  endVars >>

\* Line 34: server.run() serves until it sees should_exit, then shuts down.
ServeStop ==
  /\ srv = "serving"
  /\ should_exit
  /\ srv' = "finally"
  /\ listening' = FALSE
  /\ UNCHANGED << args, probe, ready_sets, join_result, uvicorn_kwargs, mainVars, server_thread, server_ready,
                  install_signal_handlers, startup, urlVars, viewVars, browser,
                  endVars >>

\* Line 34: server.run() raises while serving.
ServeRaises ==
  /\ srv = "serving"
  /\ srv' = "finally"
  /\ listening' = FALSE
  /\ UNCHANGED << args, probe, ready_sets, join_result, uvicorn_kwargs, mainVars, server_thread, server_ready,
                  install_signal_handlers, startup, urlVars, viewVars, browser,
                  endVars >>

\* Lines 35-36: the finally block, and the end of the thread.
RunServerFinallyMutant ==
  /\ srv = "finally"
  /\ srv' = "dead"
  /\ install_signal_handlers' = "original"
  /\ server_thread' = "dead"
  /\ server_ready' = FALSE
  /\ UNCHANGED << args, probe, ready_sets, join_result, uvicorn_kwargs, mainVars, listening, startup, urlVars,
                  viewVars, browser, endVars >>
RunServerFinally ==
  /\ srv = "finally"
  /\ srv' = "dead"
  /\ install_signal_handlers' = "original"
  /\ server_thread' = "dead"
  /\ UNCHANGED << args, probe, ready_sets, join_result, uvicorn_kwargs, mainVars, listening, server_ready,
                  startup, urlVars, viewVars, browser, endVars >>

(***************************************************************************)
(* _wait_and_load(), lines 110-117: the polling task of the embedded view  *)
(***************************************************************************)
\* Line 113, range(1200) used up: the loop ends without a break.
LoadExhausted ==
  /\ wl = "check"
  /\ j = LoadPolls
  /\ wl' = "load"
  /\ UNCHANGED << args, probe, ready_sets, join_result, uvicorn_kwargs, mainVars, server_thread, srvVars,
                  urlVars, view, view_url, view_error, j, load_calls, browser,
                  endVars >>

\* Line 114, left operand: server_ready.is_set().
LoadCheckEvent ==
  /\ wl = "check"
  /\ j < LoadPolls
  /\ wl' = IF server_ready THEN "load" ELSE "probe"
  /\ UNCHANGED << args, probe, ready_sets, join_result, uvicorn_kwargs, mainVars, server_thread, srvVars,
                  urlVars, view, view_url, view_error, j, load_calls, browser,
                  endVars >>

\* Line 114, right operand: _is_port_open(probe_host, args.port).
LoadProbe ==
  /\ wl = "probe"
  /\ \E outcome \in ConnectOutcomes(args.host, probe_host, listening) :
       wl' = IF _is_port_open(outcome) THEN "load" ELSE "sleep"
  /\ UNCHANGED << args, probe, ready_sets, join_result, uvicorn_kwargs, mainVars, server_thread, srvVars,
                  urlVars, view, view_url, view_error, j, load_calls, browser,
                  endVars >>

\* Line 116: time.sleep(0.1), and the next iteration.
LoadSleep ==
  /\ wl = "sleep"
  /\ wl' = "check"
  /\ j' = j + 1
  /\ UNCHANGED << args, probe, ready_sets, join_result, uvicorn_kwargs, mainVars, server_thread, srvVars,
                  urlVars, view, view_url, view_error, load_calls, browser,
                  endVars >>

\* Line 117: window.load_url(base_url); a view that is gone shows nothing.
LoadUrl ==
  /\ wl = "load"
  /\ wl' = "done"
  /\ load_calls' = load_calls + 1
  /\ view_url' = IF view = "open" THEN base_url ELSE view_url
  /\ UNCHANGED << args, probe, ready_sets, join_result, uvicorn_kwargs, mainVars, server_thread, srvVars,
                  urlVars, view, view_error, j, browser, endVars >>

(***************************************************************************)
(* The program                                                             *)
(***************************************************************************)
\* The steps of the foreground thread that the thread itself takes.
MainStep ==
  \/ Validate \/ StartServer \/ ResolveTarget
  \/ WaitExhausted \/ WaitCheckEvent \/ WaitProbe \/ WaitSleep
  \/ ImportWebview \/ CreateWindow \/ WebviewStart
  \/ BrowserOpen \/ KeepAliveCheck \/ KeepAliveSleep
  \/ RequestStop \/ JoinThread \/ JoinReturns

\* What the user and the windowing toolkit do to the foreground thread. A
\* KeyboardInterrupt is delivered where the foreground blocks: in the probe
\* and the sleep of the wait loop, in the view's event loop, in the sleep of
\* the keep-alive loop and in the join.
Environment ==
  \/ WaitInterrupt \/ ViewRaises \/ ViewClosed \/ ViewInterrupt
  \/ KeepAliveInterrupt \/ JoinInterrupt

ServiceStep ==
  \/ RunServerPatch \/ OriginalStartup \/ _startup_notify
  \/ ServeStop \/ ServeRaises \/ RunServerFinally

PollStep ==
  \/ LoadExhausted \/ LoadCheckEvent \/ LoadProbe \/ LoadSleep \/ LoadUrl

Next == MainStep \/ Environment \/ ServiceStep \/ PollStep

Spec == Init /\ [][Next]_vars

(***************************************************************************)
(* The configuration alone: main() up to the DisplayTarget, lines 65-85,   *)
(* over every configuration of AllArgs.                                    *)
(***************************************************************************)
ConfigInit == InitWith(AllArgs) /\ probe = NoProbe

ConfigNext == Validate \/ StartServer \/ ResolveTarget

ConfigSpec == ConfigInit /\ [][ConfigNext]_vars

(***************************************************************************)
(* _is_port_open(host, port, timeout), lines 10-17, alone: one call        *)
(* followed statement by statement, for every host and port of ProbeCalls. *)
(***************************************************************************)
\* Everything but the call being followed.
programVars == << args, uvicorn_kwargs, mainVars, server_thread, srvVars,
                  urlVars, viewVars, browser, endVars, join_result,
                  ready_sets >>

\* The calls: a host that resolves, one that does not, an IPv6 literal, an
\* invalid address; a port in range or out of it; a listener there or none.
ProbeHosts == { "127.0.0.1", "localhost", "192.168.1.20", "no.such.host",
                "::1", "not a host" }
ProbePorts == { -1, 80, 8000, 65535, 65536 }

ProbeCalls ==
  { [ NoProbe EXCEPT !.at = "called", !.host = h, !.port = p,
                     !.listening = l ] :
      h \in ProbeHosts, p \in ProbePorts, l \in BOOLEAN }

\* Line 14: what sock.connect((host, port)) ends with. A port outside
\* 0..65535 raises OverflowError before anything is sent; a name that does
\* not resolve raises socket.gaierror.
ProbeOutcomes(host, port, is_listening) ==
  IF port < 0 \/ port > 65535 THEN { "OverflowError" }
  ELSE IF host \in { "no.such.host", "not a host" } THEN { "gaierror" }
  ELSE ConnectOutcomes(host, host, is_listening)

ProbeInit ==
  /\ InitWith({ [ host |-> "0.0.0.0", port |-> 8000,
                  ssl_certfile |-> None, ssl_keyfile |-> None ] })
  /\ probe \in ProbeCalls

\* The value a call returned, as against "none": no value yet.
Returned(value) == IF value THEN "True" ELSE "False"

\* Lines 11-12: the socket is created and its timeout set.
ProbeSocket ==
  /\ probe.at = "called"
  /\ probe' = [ probe EXCEPT !.at = "connect", !.sock = "open" ]
  /\ UNCHANGED programVars

\* Lines 13-17: connect; return True, or False for any Exception.
ProbeConnectMutant ==
  /\ probe.at = "connect"
  /\ \E outcome \in ProbeOutcomes(probe.host, probe.port, probe.listening) :
       probe' =
         IF outcome \in { "connected", "refused", "timeout", "gaierror" }
           THEN [ probe EXCEPT !.at = "leave", !.outcome = outcome,
                               !.result = Returned(_is_port_open(outcome)) ]
           ELSE [ probe EXCEPT !.at = "leave", !.outcome = outcome,
                               !.raised = outcome ]
  /\ UNCHANGED programVars
ProbeConnect ==
  /\ probe.at = "connect"
  /\ \E outcome \in ProbeOutcomes(probe.host, probe.port, probe.listening) :
       probe' = [ probe EXCEPT !.at = "leave", !.outcome = outcome,
                               !.result = Returned(_is_port_open(outcome)) ]
  /\ UNCHANGED programVars

\* Line 14: a KeyboardInterrupt while connect blocks is no Exception.
ProbeInterrupt ==
  /\ probe.at = "connect"
  /\ probe' = [ probe EXCEPT !.at = "leave", !.outcome = "interrupted",
                             !.raised = "KeyboardInterrupt" ]
  /\ UNCHANGED programVars

\* Line 11: leaving the with statement closes the socket, on a return and
\* on an exception alike.
ProbeClose ==
  /\ probe.at = "leave"
  /\ probe' = [ probe EXCEPT !.at = "left", !.sock = "closed" ]
  /\ UNCHANGED programVars

ProbeNext == ProbeSocket \/ ProbeConnect \/ ProbeInterrupt \/ ProbeClose

ProbeSpec == ProbeInit /\ [][ProbeNext]_vars

(***************************************************************************)
(* The scheduling the wait loop relies on: the foreground thread, when it  *)
(* can take a step of its own, eventually takes one. Nothing is assumed of *)
(* the service thread, the polling task, the user or the toolkit.          *)
(***************************************************************************)
FairSpec == Spec /\ WF_vars(MainStep)

(***************************************************************************)
(* The program up to the hand-off: main() from validation to the end of    *)
(* the bounded wait (lines 65-89) beside the service thread. While main()  *)
(* waits, no other step of the program is enabled (WaitPhaseClosed), so    *)
(* these are the behaviours of Spec up to the hand-off.                    *)
(***************************************************************************)
WaitMainStep ==
  \/ Validate \/ StartServer \/ ResolveTarget
  \/ WaitExhausted \/ WaitCheckEvent \/ WaitProbe \/ WaitSleep

WaitNext ==
  \/ WaitMainStep
  \/ WaitInterrupt
  \/ RunServerPatch \/ OriginalStartup \/ _startup_notify
  \/ ServeRaises \/ RunServerFinally

WaitSpec == Init /\ [][WaitNext]_vars /\ WF_vars(WaitMainStep)

\* Until the hand-off the polling task does not exist, no view or browser is
\* open and the stop flag is unset: the steps WaitNext leaves out are disabled.
WaitPhaseClosed ==
  pc \in { "validate", "start", "resolve", "wait_check", "wait_probe",
           "wait_sleep" } =>
    /\ wl = "unstarted" /\ view = "none" /\ browser = "none"
    /\ ~should_exit /\ pending = "none"

(***************************************************************************)
(* Claims                                                                  *)
(***************************************************************************)
\* A certificate or key path counts as supplied when it is a non-empty string.
Supplied(path) == path # None /\ path # ""

\* main() has left the bounded wait through one of the loop's exits: the
\* Presentation Controller phase has begun.
Presenting == handoff # "none"

\* C1: whenever main() ends after the Presentation Controller phase (view
\* closed, keep-alive loop left because the thread died, interrupt caught),
\* the stop flag has been set; the join is reached, and made, only with the
\* stop flag already set.
C1_StopThenJoin ==
  /\ (pc \in { "finally_join", "joining" } => should_exit)
  /\ (join_calls > 0 => should_exit /\ stop_requests > 0)
  /\ (pc = "exit" /\ Presenting => should_exit /\ stop_requests > 0)

\* C1, its case: the view was closed with the service still running; main()
\* asked it to stop, joined the thread and returned.
C1_Witness ==
  /\ pc = "exit" /\ raised = "none"
  /\ view = "closed" /\ view_error = "none"
  /\ should_exit /\ join_calls = 1

\* C2: with the service thread started, main() never ends (return, exception
\* or interrupt) without the stop flag set on the service.
C2_NoExitWithoutStop ==
  (pc = "exit" /\ server_thread # "none") => should_exit

\* C3: the event server_ready, once set, stays set in every step of the
\* service thread, the wait loop, the polling task and the shutdown path.
C3_ReadyMonotonic == [][server_ready => server_ready']_vars

\* C3, its case: the event is still set after the service thread has ended
\* and main() has shut down and returned.
C3_Witness ==
  /\ server_ready
  /\ srv = "dead" /\ server_thread = "dead"
  /\ pc = "exit" /\ should_exit

\* C4: server.should_exit, once true, is true after every step; main() never
\* writes anything but True to it.
C4_StopMonotonic == [][should_exit => should_exit']_vars

\* C4, its case: the stop flag is still set after the join timed out with
\* the service thread alive and main() returned.
C4_Witness ==
  /\ should_exit /\ stop_requests = 1
  /\ pc = "exit" /\ join_calls = 1
  /\ server_thread = "alive"

\* C5: with exactly one of the certificate and the key supplied, main() is
\* still validating or has ended with the ValueError that names both flags;
\* no thread was created or started, nothing was polled, no view was created
\* and no browser was opened.
C5_MismatchAborts ==
  (Supplied(args.ssl_certfile) # Supplied(args.ssl_keyfile)) =>
    /\ pc \in { "validate", "exit" }
    /\ (pc = "exit" => raised =
          "ValueError: Both --ssl-certfile and --ssl-keyfile must be specified together.")
    /\ server_thread = "none" /\ srv = "unstarted"
    /\ i = 0 /\ handoff = "none"
    /\ view = "none" /\ wl = "unstarted" /\ j = 0
    /\ browser = "none"
    /\ ~should_exit

\* C5, its case: only the certificate was supplied and main() has aborted.
C5_Witness ==
  /\ Supplied(args.ssl_certfile) /\ ~Supplied(args.ssl_keyfile)
  /\ pc = "exit" /\ raised = ValueError
  /\ server_thread = "none"

\* C6: once the DisplayTarget is computed its scheme is "https" exactly when
\* both the certificate and the key were supplied and "http" exactly when
\* neither was; the service thread is never started with only one of them.
C6_SchemeMatchesTls ==
  /\ url_scheme # "unset" =>
       /\ url_scheme = "https" <=>
            (Supplied(args.ssl_certfile) /\ Supplied(args.ssl_keyfile))
       /\ url_scheme = "http" <=>
            (~Supplied(args.ssl_certfile) /\ ~Supplied(args.ssl_keyfile))
  /\ server_thread # "none" =>
       (Supplied(args.ssl_certfile) <=> Supplied(args.ssl_keyfile))

\* C6, its case: certificate and key both supplied, the service thread
\* started, and the DisplayTarget computed with the scheme https.
C6_Witness ==
  /\ Supplied(args.ssl_certfile) /\ Supplied(args.ssl_keyfile)
  /\ server_thread = "alive"
  /\ url_scheme = "https"

\* C7: a wildcard bind host ("0.0.0.0", "::", "0:0:0:0:0:0:0:0") is displayed
\* as "localhost" and probed as "127.0.0.1" and appears in neither, while
\* uvicorn keeps the configured host; any other host is displayed and probed
\* as it is; host 0.0.0.0, port 8000, http gives "http://localhost:8000".
C7_HostNormalized ==
  base_url # "unset" =>
    /\ uvicorn_kwargs.host = args.host
    /\ args.host \in { "0.0.0.0", "::", "0:0:0:0:0:0:0:0" } =>
         /\ display_host = "localhost"
         /\ probe_host = "127.0.0.1"
         /\ base_url = url_scheme \o "://localhost:" \o ToString(args.port)
    /\ args.host \notin { "0.0.0.0", "::", "0:0:0:0:0:0:0:0" } =>
         /\ display_host = args.host
         /\ probe_host = args.host
         /\ base_url =
              url_scheme \o "://" \o args.host \o ":" \o ToString(args.port)
    /\ display_host \notin { "0.0.0.0", "::", "0:0:0:0:0:0:0:0" }
    /\ probe_host \notin { "0.0.0.0", "::", "0:0:0:0:0:0:0:0" }
    /\ (args.host = "0.0.0.0" /\ args.port = 8000 /\ url_scheme = "http") =>
         base_url = "http://localhost:8000"

\* C7, its case: the service binds 0.0.0.0:8000 without TLS and the
\* DisplayTarget is http://localhost:8000.
C7_Witness ==
  /\ args.host = "0.0.0.0" /\ args.port = 8000
  /\ uvicorn_kwargs.host = "0.0.0.0"
  /\ base_url = "http://localhost:8000"
  /\ probe_host = "127.0.0.1"

\* The errors the embedded view can fail with.
ViewErrors == { "ImportError", "CreateError", "StartError", "RunError" }

\* C8: once the embedded view has failed (import, window creation, or the
\* running view), main() is about to open the browser or has opened it on the
\* DisplayTarget, and the error is neither in flight nor what main() ends with.
C8_ViewFailureFallsBack ==
  view_error # "none" =>
    /\ view_error \in ViewErrors
    /\ pc = "fallback" \/ browser = base_url
    /\ pending \notin ViewErrors
    /\ raised \notin ViewErrors

\* C8, its case: window creation raised, the browser was opened on the
\* DisplayTarget, and main() returned normally.
C8_Witness ==
  /\ view_error = "CreateError"
  /\ browser = base_url /\ base_url # "unset"
  /\ pc = "exit" /\ raised = "none"

\* main() is in the bounded readiness wait.
Waiting == pc \in { "wait_check", "wait_probe", "wait_sleep" }

\* C9: the wait hands off only with the event set, the service listening (a
\* probe connected) or all 200 polls used; a check made with the event set,
\* and a probe that connects, hand off at once; and the loop's exit taken is
\* the one the state justifies.
C9_HandOffOnReadiness ==
  [][ /\ (Waiting /\ pc' = "present") =>
           server_ready \/ listening \/ i = 200
      /\ (pc = "wait_check" /\ i < 200 /\ server_ready /\ pc' # pc) =>
           (pc' = "present" /\ handoff' = "event" /\ i' = i)
      /\ (pc = "wait_probe" /\ pc' = "wait_sleep") =>
           (~listening \/ args.host # "0.0.0.0")
      /\ (pc' = "present" /\ handoff' = "probe" /\ pc # pc') =>
           (listening /\ i < 200)
      /\ (pc' = "present" /\ handoff' = "exhausted" /\ pc # pc') =>
           i = 200
    ]_vars

\* C9, its case: the service signalled ready after some polls and before the
\* budget was used up, and the wait has just handed off on the event.
C9_Witness ==
  /\ pc = "present" /\ handoff = "event"
  /\ server_ready
  /\ i > 0 /\ i < 200

\* C10: the bounded wait never hangs. A startup that raises leaves the event
\* unset, and it is never set afterwards; every sleep uses up one of the 200
\* polls and the loop makes no more; with all 200 used main() goes on to the
\* Presentation Controller; and a main() that is waiting always comes to
\* present the UI, unless a KeyboardInterrupt ends it: it neither blocks nor
\* fails on its own.
C10_WaitTerminates ==
  /\ [][ /\ (srv = "run" /\ srv' = "finally") => ~server_ready'
         /\ (srv \in { "finally", "dead" } /\ ~server_ready) => ~server_ready'
         /\ (pc = "wait_sleep" /\ pc' = "wait_check") => i' = i + 1
         /\ (pc = "wait_check" /\ i = 200 /\ pc' # pc) =>
              (pc' = "present" /\ handoff' = "exhausted")
         /\ (Waiting /\ pc' = "exit") => raised' = "KeyboardInterrupt"
       ]_vars
  /\ [](Waiting => i <= 200)
  /\ Waiting ~> (pc = "present" \/ raised = "KeyboardInterrupt")

\* C10, its case: the service's startup raised, the event was never set, the
\* loop used all 200 polls and main() has gone on to present the UI.
C10_Witness ==
  /\ pc = "present" /\ handoff = "exhausted" /\ i = 200
  /\ srv = "dead" /\ ~server_ready /\ ~listening

\* C11: main() writes the stop flag exactly once when the Presentation
\* Controller has returned, never twice; it joins at most once, and skips the
\* join only with the thread already ended; a join that returned because the
\* service honoured the flag and ended leaves main() with the thread dead.
C11_StopOnceJoinOnce ==
  /\ stop_requests <= 1
  /\ join_calls <= 1
  /\ (pc \in { "finally_join", "joining" } \/ (pc = "exit" /\ Presenting)) =>
       stop_requests = 1
  /\ (pc = "exit" /\ Presenting /\ join_calls = 0) => server_thread = "dead"
  /\ (join_result # "none") => (pc = "exit" /\ join_calls = 1)
  /\ (join_result = "ended") => (server_thread = "dead" /\ srv = "dead")

\* C11, its case: the view was closed, main() asked the serving service to
\* stop once, the service ended, and the one join returned for that reason.
C11_Witness ==
  /\ pc = "exit" /\ raised = "none"
  /\ view = "closed" /\ view_error = "none"
  /\ stop_requests = 1 /\ join_calls = 1
  /\ join_result = "ended" /\ server_thread = "dead" /\ server_ready

\* main() is in its finally block (lines 129-136).
ShuttingDown == pc \in { "finally", "finally_join", "joining" }

\* The steps main() still has to take before it ends.
StepsLeft(at) ==
  CASE at = "finally" -> 3
    [] at = "finally_join" -> 2
    [] at = "joining" -> 1
    [] OTHER -> 0

\* C12: once the Presentation Controller has returned main() always ends:
\* whatever the service thread does, the foreground has a step of its own to
\* take, every step of the finally block brings its end nearer, and a join
\* that times out raises nothing and leaves main() with the thread alive.
C12_ShutdownTerminates ==
  /\ [](ShuttingDown => ENABLED MainStep)
  /\ [][ /\ (ShuttingDown /\ pc' # pc) =>
              (StepsLeft(pc') < StepsLeft(pc) /\ pc' \in
                 { "finally_join", "joining", "exit" })
         /\ (pc = "joining" /\ join_result' = "timeout") =>
              /\ pc' = "exit"
              /\ raised' = pending
              /\ server_thread' = "alive"
       ]_vars

\* C12, its case: the service never honoured the stop flag; the join timed
\* out and main() returned with the service thread still serving.
C12_Witness ==
  /\ pc = "exit" /\ raised = "none"
  /\ join_result = "timeout"
  /\ should_exit /\ srv = "serving" /\ server_thread = "alive"

\* C13: a call of _is_port_open that has been left returned True exactly
\* when the connection was established and False when it was refused, timed
\* out, did not resolve or had an invalid host or port; none of these made
\* it raise (only a KeyboardInterrupt leaves it by an exception); and its
\* socket is closed however it was left.
C13_ProbeTotal ==
  /\ probe.at = "left" =>
       /\ probe.sock = "closed"
       /\ probe.raised \in { "none", "KeyboardInterrupt" }
       /\ probe.raised = "none" <=> probe.result \in { "True", "False" }
       /\ probe.result = "True" <=> probe.outcome = "connected"
       /\ probe.outcome \in { "refused", "timeout", "gaierror",
                              "OverflowError" } =>
            (probe.result = "False" /\ probe.raised = "none")
       /\ probe.outcome = "connected" => probe.listening
  /\ probe.at \in { "idle", "called" } => probe.sock = "none"
  /\ probe.result # "none" => probe.at \in { "leave", "left" }

\* C13, its case: a call with a port out of range has returned False with
\* its socket closed.
C13_Witness ==
  /\ probe.at = "left" /\ probe.port = 65536
  /\ probe.outcome = "OverflowError"
  /\ probe.result = "False" /\ probe.raised = "none"
  /\ probe.sock = "closed"

\* C14: the open view is navigated to the DisplayTarget only in a state in
\* which the event is set or the service is listening (a probe connects);
\* until it is navigated it shows the loading placeholder.
C14_LoadOnlyWhenReachable ==
  [][ /\ (load_calls' > load_calls /\ view = "open") =>
           (server_ready \/ listening)
      /\ (view = "open" /\ load_calls = 0) => view_url = "LOADER_HTML"
    ]_vars

\* C15: the wrapper installed by _run_server sets the event once: the event
\* is set exactly when it has been set once, only by the step that follows a
\* startup that returned (the socket bound), and before the service serves a
\* request; a startup that raises leaves it unset and nothing sets it later.
C15_NotifyOnce ==
  /\ [](/\ ready_sets <= 1
        /\ server_ready <=> ready_sets = 1
        /\ srv = "serving" => server_ready
        /\ srv \in { "unstarted", "patch", "run", "notify" } => ~server_ready)
  /\ [][ /\ (ready_sets' # ready_sets \/ server_ready' # server_ready) =>
              /\ srv = "notify" /\ srv' = "serving"
              /\ startup = "wrapper" /\ listening
              /\ ~server_ready /\ server_ready'
              /\ ready_sets' = ready_sets + 1
         /\ (srv = "run" /\ srv' \notin { "run", "notify" }) =>
              (srv' = "finally" /\ ~server_ready' /\ ready_sets' = 0)
         /\ (srv \in { "finally", "dead" }) =>
              (srv' \in { "finally", "dead" } /\ ready_sets' = ready_sets)
       ]_vars

C15_Witness ==
  /\ srv = "serving" /\ startup = "wrapper"
  /\ server_ready /\ ready_sets = 1 /\ listening
  /\ Waiting

\* main() is in the keep-alive loop of the browser fallback (lines 124-126).
KeepingAlive == pc \in { "keepalive", "keepalive_sleep" }

\* C16: the keep-alive loop is entered with the browser opened after a view
\* failure; main() leaves it for the finally block only from the liveness
\* test with the service thread dead, or from the sleep by a KeyboardInterrupt
\* that is caught; a test that finds the thread alive goes on to sleep.
C16_KeepAlive ==
  /\ [](KeepingAlive => (view_error # "none" /\ browser = base_url))
  /\ [][ /\ (KeepingAlive /\ pc' # pc) =>
              (pc' \in { "keepalive", "keepalive_sleep", "finally" })
         /\ (pc = "keepalive" /\ server_thread = "alive" /\ pc' # pc) =>
              pc' = "keepalive_sleep"
         /\ (pc = "keepalive" /\ pc' = "finally") =>
              (server_thread = "dead" /\ pending' = "none")
         /\ (pc = "keepalive_sleep" /\ pc' = "finally") =>
              (KeepAliveInterrupt /\ pending' = "none")
       ]_vars

C16_Witness ==
  /\ pc = "finally" /\ browser = base_url /\ view_error # "none"
  /\ server_thread = "alive" /\ srv = "serving"
  /\ ~should_exit /\ pending = "none"

\* C17: install_signal_handlers is the original before the patch, the no-op
\* from the patch until server.run() has ended (returned or raised), and the
\* original again once _run_server has ended.
C17_SignalHandlers ==
  /\ srv \in { "unstarted", "patch" } => install_signal_handlers = "original"
  /\ srv \in { "run", "notify", "serving", "finally" } =>
       install_signal_handlers = "noop"
  /\ srv = "dead" => install_signal_handlers = "original"

C17_Witness ==
  /\ srv = "dead" /\ install_signal_handlers = "original"
  /\ startup = "wrapper"
  /\ ~server_ready /\ ready_sets = 0

\* C18: while webview.start runs, whatever the polling task is doing, the
\* view is open and can be closed; closing it leaves the polling task where
\* it is, and with the view closed and the polling task unfinished main() has
\* a step of its shutdown to take.
C18_ViewResponsive ==
  /\ [](pc = "view_running" => (view = "open" /\ ENABLED ViewClosed))
  /\ []((ShuttingDown /\ view = "closed" /\ wl # "done") => ENABLED MainStep)
  /\ [][ (pc = "view_running" /\ pc' = "finally") =>
           (view' = "closed" /\ wl' = wl /\ j' = j /\ load_calls' = load_calls)
       ]_vars

C18_Witness ==
  /\ pc = "exit" /\ view = "closed" /\ view_error = "none"
  /\ wl \in { "probe", "sleep" } /\ j > 0 /\ j < LoadPolls
  /\ should_exit /\ join_calls = 1 /\ load_calls = 0

\* C19: window.load_url is called at most once, and only with the view open
\* and the stop flag unset.
C19_LoadOnceWhileOpen ==
  /\ [](load_calls <= 1)
  /\ [][ load_calls' > load_calls => (view = "open" /\ ~should_exit) ]_vars

\* C20: while main() waits, presents, has the view open or keeps alive, the
\* stop flag is unset and has not been written; it is set only once main()
\* has passed the assignment in its finally block.
C20_StopOnlyInShutdown ==
  /\ (\/ Waiting \/ KeepingAlive \/ view = "open"
      \/ pc \in { "present", "create_window", "webview_start",
                  "view_running", "fallback" }) =>
       (~should_exit /\ stop_requests = 0)
  /\ should_exit => pc \in { "finally_join", "joining", "exit" }
  /\ should_exit <=> stop_requests > 0

C20_Witness ==
  /\ pc = "keepalive_sleep" /\ browser = base_url
  /\ srv = "serving" /\ server_ready
  /\ ~should_exit /\ stop_requests = 0

====
